---- MODULE Spec2Model ----
(***************************************************************************)
(* Resumable all-pairs distance computation of postal-code-magic.          *)
(*                                                                         *)
(* SQLite engine  : src/us/calculate_distances.py                          *)
(* DuckDB engine  : src/calculate_distances.py                             *)
(*                                                                         *)
(* The SQLite engine keeps one table, zip_distances(zip1, zip2,            *)
(* distance_miles).  Python's sqlite3 connection opens a transaction       *)
(* implicitly in front of INSERT and UPDATE and keeps it open until        *)
(* conn.commit(); closing the connection, or the death of the process,     *)
(* rolls the open transaction back.  `db` is the committed table, `work`   *)
(* is the table as the open connection sees it.                            *)
(***************************************************************************)
EXTENDS Integers, Sequences, FiniteSets, TLC

\* ------------------------------------------------------------------ bounds
\* Largest catalog (number of rows of us_zipcodes.csv) that is explored.
MaxN == 3
\* The generator's insert batch: 10,000 pairs at line 128, scaled down so
\* that a full batch and a final partial batch both happen.
InsertBatch == 2
\* calculate_distances' batch_size: 1000 at line 147, scaled down so that a
\* run takes several batches.
BatchSize == 2

\* SQL NULL, the DEFAULT of the distance_miles column.
NULL == -1

VARIABLES
    catalog,      \* zipcodes: the rows of the CSV, in file order
    db,           \* zip_distances as committed in distances.db
    conn,         \* TRUE while main() holds an open sqlite3 connection
    work,         \* zip_distances as seen through the connection
    pc,           \* where main() is
    err,          \* the exception that ended the last run, "none" if none
    awake,        \* KeepAwake.start() has been called and not undone
    batch,        \* initialize_pairs_table: the pairs waiting for an insert
    gi,           \* initialize_pairs_table: pairs drawn from the iterator
    total_pairs,  \* calculate_distances: the loop's local counter
    unprocessed,  \* calculate_distances: the batch pulled by the SELECT
    processed,    \* calculate_distances: processed_pairs
    db0,          \* history: the committed table when this run started
    computed,     \* history: (zip1, zip2) given to geodesic() in this run
    lost,         \* history: the connection's table when the run was cut short
    calls,        \* history: this run's calls on the disk and the store, in order
    \* the DuckDB engine
    bad,          \* zipcodes whose CSV coordinates are not numbers
    zip_data,     \* the list handed to calculate_distances_for_all_pairs
    cd,           \* calculated_distances in zipcode_distances.duckdb (its rows)
    submitted,    \* pairs submitted to the pool and not yet computed
    finished,     \* futures that are complete and not yet collected
    results,      \* the main thread's results buffer
    dpc,          \* where the DuckDB script is
    cd0,          \* history: calculated_distances when this run started
    todo,         \* history: the pairs this run submitted to the pool
    saved         \* history: no save of this run has raised

locals == <<batch, gi, total_pairs, unprocessed, processed>>

sql == <<db, conn, work, pc, err, awake, locals, db0, computed, lost, calls>>

duck == <<bad, zip_data, cd, submitted, finished, results, dpc, cd0, todo, saved>>

vars == <<catalog, sql, duck>>

\* --------------------------------------------------------------- the data
\* The zipcode of the i-th point of the pool.  pandas reads the column as
\* integers; 9 and 10 differ in their number of digits.
IdOf(i) == i + 8

Abs(x) == IF x < 0 THEN -x ELSE x

\* The coordinates of a point of the pool (latitude, longitude).
Coord(id) == <<id * 3, 40 - id * id>>

\* A row of the CSV.
Point(id) == [zipcode |-> id, latitude |-> Coord(id)[1], longitude |-> Coord(id)[2]]

RECURSIVE Perms(_)
Perms(S) ==
    IF S = {} THEN {<<>>}
    ELSE UNION {{<<x>> \o p : p \in Perms(S \ {x})} : x \in S}

\* The catalogs explored: the first n points of the pool, in any file order.
Catalogs ==
    UNION {{[i \in 1..n |-> Point(p[i])] : p \in Perms({IdOf(k) : k \in 1..n})}
           : n \in 0..MaxN}

\* The zipcode column: zipcodes["zipcode"].
ZipColumn(zipcodes) == [i \in 1..Len(zipcodes) |-> zipcodes[i].zipcode]

\* An integer bound to a TEXT column is stored as its decimal digits.
RECURSIVE ToText(_)
ToText(n) == IF n < 10 THEN <<n>> ELSE ToText(n \div 10) \o <<n % 10>>

\* int(text)
RECURSIVE ParseInt(_)
ParseInt(t) ==
    IF Len(t) = 0 THEN 0
    ELSE 10 * ParseInt(SubSeq(t, 1, Len(t) - 1)) + t[Len(t)]

\* itertools.combinations(s, 2): the pairs (s[i], s[j]), i < j, in the
\* order of (i, j).
RECURSIVE Comb(_, _, _)
Comb(s, i, j) ==
    IF i >= Len(s) THEN <<>>
    ELSE IF j > Len(s) THEN Comb(s, i + 1, i + 2)
    ELSE <<<<s[i], s[j]>>>> \o Comb(s, i, j + 1)

Combinations2(s) == Comb(s, 1, 2)

\* len(zipcodes) * (len(zipcodes) - 1) // 2
TotalPairs(zipcodes) == (Len(zipcodes) * (Len(zipcodes) - 1)) \div 2

\* INSERT INTO zip_distances (zip1, zip2) VALUES (?, ?): the row one pair
\* becomes; distance_miles takes its DEFAULT.
NewRow(pair) ==
    [zip1 |-> ToText(pair[1]), zip2 |-> ToText(pair[2]), distance_miles |-> NULL]

\* conn.executemany(INSERT ...): one row per pair, appended to the table.
InsertMany(table, pairs) == table \o [k \in 1..Len(pairs) |-> NewRow(pairs[k])]

\* zipcodes.loc[zipcodes["zipcode"] == z, ["latitude", "longitude"]]: the
\* coordinates of the catalog rows whose zipcode is z, in file order.
LocCoords(zipcodes, z) ==
    LET hit == {i \in 1..Len(zipcodes) : zipcodes[i].zipcode = z}
        F[i \in 0..Len(zipcodes)] ==
            IF i = 0 THEN <<>>
            ELSE IF i \in hit
                 THEN Append(F[i - 1], <<zipcodes[i].latitude, zipcodes[i].longitude>>)
                 ELSE F[i - 1]
    IN F[Len(zipcodes)]

\* geodesic(coord1, coord2).miles, abstracted to an integer metric: a
\* deterministic, finite, non-negative function of the two coordinates.
Geodesic(c1, c2) == Abs(c1[1] - c2[1]) + Abs(c1[2] - c2[2])

\* SELECT COUNT(*) FROM zip_distances
Count(table) == Len(table)

\* The positions of the rows WHERE distance_miles IS NULL.
NullRows(table) == {i \in 1..Len(table) : table[i].distance_miles = NULL}

\* SELECT COUNT(*) FROM zip_distances WHERE distance_miles IS NULL
CountNull(table) == Cardinality(NullRows(table))

\* The rows at the positions S, in table order.
RowsAt(table, S) ==
    LET F[i \in 0..Len(table)] ==
            IF i = 0 THEN <<>>
            ELSE IF i \in S THEN Append(F[i - 1], <<table[i].zip1, table[i].zip2>>)
                 ELSE F[i - 1]
    IN F[Len(table)]

\* Mutant of SelectNull: the SELECT has lost its WHERE distance_miles IS
\* NULL and returns any n rows.
SelectAnyRows(table, n) ==
    LET k == IF Len(table) < n THEN Len(table) ELSE n
    IN {RowsAt(table, S) : S \in {T \in SUBSET (1..Len(table)) : Cardinality(T) = k}}

\* Mutant of SelectNull: the SELECT reads "LIMIT n" without its WHERE and
\* returns the first n rows of the table.
SelectFirstRows(table, n) ==
    {RowsAt(table, 1..(IF Len(table) < n THEN Len(table) ELSE n))}

\* The results SELECT zip1, zip2 ... WHERE distance_miles IS NULL LIMIT n
\* may return: n of the NULL rows (all of them when there are fewer); SQL
\* leaves which ones open.
SelectNull(table, n) ==
    LET k == IF CountNull(table) < n THEN CountNull(table) ELSE n
    IN {RowsAt(table, S) : S \in {T \in SUBSET NullRows(table) : Cardinality(T) = k}}

\* Mutant of UpdateOne: the two zipcodes are bound in the wrong order, so
\* the WHERE clause matches no row of a pair.
UpdateOneSwapped(table, u) ==
    [i \in 1..Len(table) |->
        IF table[i].zip1 = u[3] /\ table[i].zip2 = u[2]
        THEN [table[i] EXCEPT !.distance_miles = u[1]]
        ELSE table[i]]

\* UPDATE zip_distances SET distance_miles = d WHERE zip1 = a AND zip2 = b
UpdateOne(table, u) ==
    [i \in 1..Len(table) |->
        IF table[i].zip1 = u[2] /\ table[i].zip2 = u[3]
        THEN [table[i] EXCEPT !.distance_miles = u[1]]
        ELSE table[i]]

\* conn.executemany(UPDATE ..., processed_pairs)
RECURSIVE UpdateMany(_, _)
UpdateMany(table, us) ==
    IF us = <<>> THEN table
    ELSE UpdateMany(UpdateOne(table, Head(us)), Tail(us))

\* The body of the for loop over unprocessed_pairs: look both zipcodes up,
\* compute the distance, append (distance, zip1, zip2).
ProcessPairs(zipcodes, pulled) ==
    [k \in 1..Len(pulled) |->
        <<Geodesic(LocCoords(zipcodes, ParseInt(pulled[k][1]))[1],
                   LocCoords(zipcodes, ParseInt(pulled[k][2]))[1]),
          pulled[k][1], pulled[k][2]>>]

Range(s) == {s[i] : i \in 1..Len(s)}

\* Both zipcodes of a pulled pair select a row of the catalog.
Known(zipcodes, key) ==
    /\ LocCoords(zipcodes, ParseInt(key[1])) # <<>>
    /\ LocCoords(zipcodes, ParseInt(key[2])) # <<>>

\* The position of the first pulled pair on which .iloc[0] raises, past the
\* end when there is none.
FirstUnknown(zipcodes, pulled) ==
    LET unknown == {k \in 1..Len(pulled) : ~Known(zipcodes, pulled[k])}
    IN IF unknown = {} THEN Len(pulled) + 1
       ELSE CHOOSE k \in unknown : \A j \in unknown : k <= j

\* ------------------------------------------------------------------- Init
NoLocals ==
    /\ batch = <<>>
    /\ gi = 0
    /\ total_pairs = 0
    /\ unprocessed = <<>>
    /\ processed = <<>>

ResetLocals ==
    /\ batch' = <<>>
    /\ gi' = 0
    /\ total_pairs' = 0
    /\ unprocessed' = <<>>
    /\ processed' = <<>>

\* The stores a first run may find in distances.db: none yet (empty), one
\* of this engine's own making, or a table that is not of its making: too
\* few rows, one row too many, the right number of rows with one pair held
\* twice, or the table of a catalog that had another zipcode in the place
\* of this catalog's last one.
FullTable(zipcodes) == InsertMany(<<>>, Combinations2(ZipColumn(zipcodes)))

OtherCatalog(zipcodes) ==
    [zipcodes EXCEPT ![Len(zipcodes)] = Point(IdOf(Len(zipcodes) + 1))]

FoundStores(zipcodes) ==
    LET full == FullTable(zipcodes)
        n    == Len(full)
    IN {SubSeq(full, 1, k) : k \in 0..n}
       \cup {Append(full, NewRow(<<IdOf(1), IdOf(2)>>))}
       \cup (IF n >= 2 THEN {[full EXCEPT ![n] = full[1]]} ELSE {})
       \cup (IF n >= 1 THEN {FullTable(OtherCatalog(zipcodes))} ELSE {})

\* No run of the SQLite engine has started.
SqlIdle ==
    /\ conn = FALSE
    /\ work = <<>>
    /\ pc = "idle"
    /\ err = "none"
    /\ awake = FALSE
    /\ NoLocals
    /\ db0 = db
    /\ computed = {}
    /\ lost = <<>>
    /\ calls = <<>>

\* No run of the DuckDB engine has started and its store is empty.
DuckIdle ==
    /\ zip_data = <<>>
    /\ cd = {}
    /\ submitted = {}
    /\ finished = {}
    /\ results = <<>>
    /\ dpc = "idle"
    /\ cd0 = {}
    /\ todo = {}
    /\ saved = TRUE

\* distances.db does not exist yet.
Init ==
    /\ catalog \in Catalogs
    /\ db = <<>>
    /\ SqlIdle
    /\ bad = {}
    /\ DuckIdle

\* distances.db is whatever the operator left there.
InitAnyStore ==
    /\ catalog \in Catalogs
    /\ db \in FoundStores(catalog)
    /\ SqlIdle
    /\ bad = {}
    /\ DuckIdle

\* ---------------------------------------------------------------- actions
\* The calls a step makes are appended to the run's record.
Log(es) == calls' = calls \o es

\* An exception leaves main(): the except clause logs and re-raises, the
\* finally clause closes the connection, which drops what is uncommitted.
Raise(e) ==
    /\ pc' = "failed"
    /\ err' = e
    /\ conn' = FALSE
    /\ work' = <<>>
    /\ lost' = work
    /\ ResetLocals

\* main() is invoked: KeepAwake().start().
MainStart ==
    /\ pc \in {"idle", "done", "failed", "crashed"}
    /\ pc' = "main"
    /\ err' = "none"
    /\ awake' = TRUE
    /\ db0' = db
    /\ computed' = {}
    /\ lost' = <<>>
    /\ calls' = <<>>
    /\ UNCHANGED <<duck, catalog, db, conn, work, locals>>

\* Mutant of MainCheck: sqlite3.connect() has moved in front of
\* load_zipcodes().
MainCheckConnects ==
    /\ pc = "main"
    /\ pc' = "load"
    /\ conn' = TRUE
    /\ work' = db
    /\ Log(<<"check", "connect">>)
    /\ UNCHANGED <<duck, lost, catalog, db, err, awake, locals, db0, computed>>

\* check_disk_space() at the head of the try block finds enough space.
MainCheck ==
    /\ pc = "main"
    /\ pc' = "load"
    /\ Log(<<"check">>)
    /\ UNCHANGED <<duck, lost, catalog, db, conn, work, err, awake, locals, db0, computed>>

\* load_zipcodes()
LoadZipcodes ==
    /\ pc = "load"
    /\ pc' = "connect"
    /\ Log(<<>>)
    /\ UNCHANGED <<duck, lost, catalog, db, conn, work, err, awake, locals, db0, computed>>

\* load_zipcodes() raises: the CSV is missing, or lacks a required column.
LoadFails ==
    /\ pc = "load"
    /\ Raise("load")
    /\ Log(<<>>)
    /\ UNCHANGED <<duck, catalog, db, awake, db0, computed>>

\* sqlite3.connect(RESULTS_DB)
Connect ==
    /\ pc = "connect"
    /\ conn' = TRUE
    /\ work' = db
    /\ pc' = "init"
    /\ Log(<<"connect">>)
    /\ UNCHANGED <<duck, lost, catalog, db, err, awake, locals, db0, computed>>

\* initialize_pairs_table: check_disk_space() passes, CREATE TABLE IF NOT
\* EXISTS.
InitBegin ==
    /\ pc = "init"
    /\ pc' = "count"
    /\ Log(<<"check", "create_table">>)
    /\ UNCHANGED <<duck, lost, catalog, db, conn, work, err, awake, locals, db0, computed>>

\* Mutant of InitCount: a table that already holds every pair is generated
\* into again.
InitCountRegenerates ==
    /\ pc = "count"
    /\ IF Count(work) = 0 \/ Count(work) = TotalPairs(catalog)
       THEN /\ pc' = "gen"
            /\ batch' = <<>>
            /\ gi' = 0
            /\ UNCHANGED <<conn, work, err, lost, total_pairs, unprocessed, processed>>
       ELSE Raise("incomplete")
    /\ Log(<<>>)
    /\ UNCHANGED <<duck, catalog, db, awake, db0, computed>>

\* Mutant of InitCount: any table that holds rows is taken as resumable.
InitCountResumesAny ==
    /\ pc = "count"
    /\ IF Count(work) = 0
       THEN /\ pc' = "gen"
            /\ batch' = <<>>
            /\ gi' = 0
            /\ UNCHANGED <<conn, work, err, lost, total_pairs, unprocessed, processed>>
       ELSE /\ pc' = "calc"
            /\ UNCHANGED <<conn, work, err, lost, locals>>
    /\ Log(<<>>)
    /\ UNCHANGED <<duck, catalog, db, awake, db0, computed>>

\* initialize_pairs_table: total_pairs, existing_count and the three-way
\* branch on it.
InitCount ==
    /\ pc = "count"
    /\ IF Count(work) = 0
       THEN /\ pc' = "gen"
            /\ batch' = <<>>
            /\ gi' = 0
            /\ UNCHANGED <<conn, work, err, lost, total_pairs, unprocessed, processed>>
       ELSE IF Count(work) = TotalPairs(catalog)
       THEN /\ pc' = "calc"
            /\ UNCHANGED <<conn, work, err, lost, locals>>
       ELSE Raise("incomplete")
    /\ Log(<<>>)
    /\ UNCHANGED <<duck, catalog, db, awake, db0, computed>>

\* Mutant of GenNext: the batch is not emptied after its insert.
GenNextKeepsBatch ==
    /\ pc = "gen"
    /\ gi < Len(Combinations2(ZipColumn(catalog)))
    /\ LET filled == Append(batch, Combinations2(ZipColumn(catalog))[gi + 1])
       IN /\ work' = IF Len(filled) >= InsertBatch THEN InsertMany(work, filled) ELSE work
          /\ batch' = filled
    /\ gi' = gi + 1
    /\ Log(IF Len(batch) + 1 >= InsertBatch THEN <<"check", "insert">> ELSE <<>>)
    /\ UNCHANGED <<duck, lost, catalog, db, conn, pc, err, awake, total_pairs, unprocessed,
                   processed, db0, computed>>

\* Mutant of GenNext: every insert batch is committed on its own.
GenNextCommits ==
    /\ pc = "gen"
    /\ gi < Len(Combinations2(ZipColumn(catalog)))
    /\ LET filled == Append(batch, Combinations2(ZipColumn(catalog))[gi + 1])
       IN IF Len(filled) >= InsertBatch
          THEN /\ work' = InsertMany(work, filled)
               /\ db' = InsertMany(work, filled)
               /\ batch' = <<>>
          ELSE /\ work' = work
               /\ db' = db
               /\ batch' = filled
    /\ gi' = gi + 1
    /\ Log(IF Len(batch) + 1 >= InsertBatch THEN <<"check", "insert", "commit">> ELSE <<>>)
    /\ UNCHANGED <<duck, lost, catalog, conn, pc, err, awake, total_pairs, unprocessed,
                   processed, db0, computed>>

\* One turn of the for loop over the pairs: append the pair and, once the
\* batch holds InsertBatch pairs, check_disk_space() passes and the batch
\* is inserted.
GenNext ==
    /\ pc = "gen"
    /\ gi < Len(Combinations2(ZipColumn(catalog)))
    /\ LET filled == Append(batch, Combinations2(ZipColumn(catalog))[gi + 1])
       IN IF Len(filled) >= InsertBatch
          THEN /\ work' = InsertMany(work, filled)
               /\ batch' = <<>>
          ELSE /\ work' = work
               /\ batch' = filled
    /\ gi' = gi + 1
    /\ Log(IF Len(batch) + 1 >= InsertBatch THEN <<"check", "insert">> ELSE <<>>)
    /\ UNCHANGED <<duck, lost, catalog, db, conn, pc, err, awake, total_pairs, unprocessed,
                   processed, db0, computed>>

\* Mutant of GenTail: the pairs left in the batch after the loop are not
\* inserted.
GenTailDropsRest ==
    /\ pc = "gen"
    /\ gi = Len(Combinations2(ZipColumn(catalog)))
    /\ batch' = <<>>
    /\ pc' = "calc"
    /\ Log(<<>>)
    /\ UNCHANGED <<duck, lost, catalog, db, conn, work, err, awake, gi, total_pairs,
                   unprocessed, processed, db0, computed>>

\* The iterator is exhausted: the pairs left in the batch are inserted
\* (check_disk_space() passes) and initialize_pairs_table returns.
GenTail ==
    /\ pc = "gen"
    /\ gi = Len(Combinations2(ZipColumn(catalog)))
    /\ work' = IF batch # <<>> THEN InsertMany(work, batch) ELSE work
    /\ batch' = <<>>
    /\ pc' = "calc"
    /\ Log(IF batch # <<>> THEN <<"check", "insert">> ELSE <<>>)
    /\ UNCHANGED <<duck, lost, catalog, db, conn, err, awake, gi, total_pairs, unprocessed,
                   processed, db0, computed>>

\* calculate_distances up to the loop: check_disk_space() passes, CREATE
\* INDEX, conn.commit(), and the count of the NULL rows.
CalcBegin ==
    /\ pc = "calc"
    /\ db' = work
    /\ total_pairs' = CountNull(work)
    /\ pc' = "loop"
    /\ Log(<<"check", "create_index", "commit">>)
    /\ UNCHANGED <<duck, lost, catalog, conn, work, err, awake, batch, gi, unprocessed,
                   processed, db0, computed>>

\* Mutant of LoopPull: the loop condition is off by one, while
\* total_pairs > 1.
LoopPullOffByOne ==
    /\ pc = "loop"
    /\ IF total_pairs > 1
       THEN \E pulled \in SelectNull(work, BatchSize) :
               /\ unprocessed' = pulled
               /\ pc' = IF pulled = <<>> THEN "drop" ELSE "compute"
       ELSE /\ unprocessed' = unprocessed
            /\ pc' = "drop"
    /\ Log(IF total_pairs > 1 THEN <<"check", "select">> ELSE <<>>)
    /\ UNCHANGED <<duck, lost, catalog, db, conn, work, err, awake, batch, gi, total_pairs,
                   processed, db0, computed>>

\* The head of a loop turn: while total_pairs > 0, check_disk_space()
\* passes, SELECT ... LIMIT batch_size, break when nothing came back.
LoopPull ==
    /\ pc = "loop"
    /\ IF total_pairs > 0
       THEN \E pulled \in SelectNull(work, BatchSize) :
               /\ unprocessed' = pulled
               /\ pc' = IF pulled = <<>> THEN "drop" ELSE "compute"
       ELSE /\ unprocessed' = unprocessed
            /\ pc' = "drop"
    /\ Log(IF total_pairs > 0 THEN <<"check", "select">> ELSE <<>>)
    /\ UNCHANGED <<duck, lost, catalog, db, conn, work, err, awake, batch, gi, total_pairs,
                   processed, db0, computed>>

\* Mutant of Compute: a pair with a zipcode the catalog lacks is skipped,
\* the rest of the batch is processed.
ComputeSkipsUnknown ==
    /\ pc = "compute"
    /\ processed' = ProcessPairs(catalog,
                        SelectSeq(unprocessed, LAMBDA key : Known(catalog, key)))
    /\ computed' = computed \cup {key \in Range(unprocessed) : Known(catalog, key)}
    /\ pc' = "update"
    /\ Log(<<>>)
    /\ UNCHANGED <<duck, lost, catalog, db, conn, work, err, awake, batch, gi, total_pairs,
                   unprocessed, db0>>

\* The for loop over the pulled pairs.  .iloc[0] on the empty selection a
\* zipcode missing from the catalog gives raises IndexError, which ends
\* the loop and the run in front of any UPDATE of the batch.
Compute ==
    /\ pc = "compute"
    /\ LET k == FirstUnknown(catalog, unprocessed)
       IN IF k > Len(unprocessed)
          THEN /\ processed' = ProcessPairs(catalog, unprocessed)
               /\ computed' = computed \cup Range(unprocessed)
               /\ pc' = "update"
               /\ UNCHANGED <<lost, conn, work, err, batch, gi, total_pairs, unprocessed>>
          ELSE /\ Raise("lookup")
               /\ computed' = computed \cup Range(SubSeq(unprocessed, 1, k - 1))
    /\ Log(<<>>)
    /\ UNCHANGED <<duck, catalog, db, awake, db0>>

\* Mutant of Update: the connection is in autocommit mode, every UPDATE
\* reaches distances.db at once.
UpdateAutocommit ==
    /\ pc = "update"
    /\ work' = IF processed # <<>> THEN UpdateMany(work, processed) ELSE work
    /\ db' = work'
    /\ pc' = "commit"
    /\ Log(IF processed # <<>> THEN <<"update">> ELSE <<>>)
    /\ UNCHANGED <<duck, lost, catalog, conn, err, awake, locals, db0, computed>>

\* conn.executemany(UPDATE ...) inside the connection's transaction.
Update ==
    /\ pc = "update"
    /\ work' = IF processed # <<>> THEN UpdateMany(work, processed) ELSE work
    /\ pc' = "commit"
    /\ Log(IF processed # <<>> THEN <<"update">> ELSE <<>>)
    /\ UNCHANGED <<duck, lost, catalog, db, conn, err, awake, locals, db0, computed>>

\* Mutant of Commit: the counter is lowered by batch_size, not by the
\* number of pairs processed.
CommitCountsBatchSize ==
    /\ pc = "commit"
    /\ db' = work
    /\ total_pairs' = total_pairs - BatchSize
    /\ unprocessed' = <<>>
    /\ processed' = <<>>
    /\ pc' = "loop"
    /\ Log(<<"commit">>)
    /\ UNCHANGED <<duck, lost, catalog, conn, work, err, awake, batch, gi, db0, computed>>

\* conn.commit() after the batch, and the counter's update.
Commit ==
    /\ pc = "commit"
    /\ db' = work
    /\ total_pairs' = total_pairs - Len(processed)
    /\ unprocessed' = <<>>
    /\ processed' = <<>>
    /\ pc' = "loop"
    /\ Log(<<"commit">>)
    /\ UNCHANGED <<duck, lost, catalog, conn, work, err, awake, batch, gi, db0, computed>>

\* conn.commit() after the batch raises (the database is locked, the disk
\* fails): nothing catches it inside calculate_distances.
CommitFails ==
    /\ pc = "commit"
    /\ Raise("commit")
    /\ Log(<<"commit_failed">>)
    /\ UNCHANGED <<duck, catalog, db, awake, db0, computed>>

\* After the loop: DROP INDEX, conn.commit(), VACUUM; calculate_distances
\* and main() return, the finally clause closes the connection.
Finish ==
    /\ pc = "drop"
    /\ db' = work
    /\ conn' = FALSE
    /\ work' = <<>>
    /\ ResetLocals
    /\ pc' = "done"
    /\ Log(<<"drop_index", "commit", "vacuum">>)
    /\ UNCHANGED <<duck, lost, catalog, err, awake, db0, computed>>

\* The places where check_disk_space() is the next call.
AtDiskCheck ==
    \/ pc \in {"main", "init", "calc"}
    \/ pc = "gen" /\ gi < Len(Combinations2(ZipColumn(catalog)))
                  /\ Len(batch) + 1 >= InsertBatch
    \/ pc = "gen" /\ gi = Len(Combinations2(ZipColumn(catalog))) /\ batch # <<>>
    \/ pc = "loop" /\ total_pairs > 0

\* Mutant of DiskCheckFails: the exception of the failing check is caught
\* and logged where it is raised, and the run goes on.
DiskCheckSwallowed ==
    /\ AtDiskCheck
    /\ Log(<<"check_failed">>)
    /\ UNCHANGED <<duck, catalog, db, conn, work, pc, err, awake, locals, db0, computed, lost>>

\* check_disk_space() finds less than DISK_SPACE_THRESHOLD_MB and raises.
DiskCheckFails ==
    /\ AtDiskCheck
    /\ Raise("disk")
    /\ Log(<<"check_failed">>)
    /\ UNCHANGED <<duck, catalog, db, awake, db0, computed>>

\* The process dies (kill, power loss) anywhere in main(): nothing of the
\* open transaction reaches distances.db.
Crash ==
    /\ pc \notin {"idle", "done", "failed", "crashed"}
    /\ pc' = "crashed"
    /\ conn' = FALSE
    /\ work' = <<>>
    /\ lost' = work
    /\ ResetLocals
    /\ Log(<<>>)
    /\ UNCHANGED <<duck, catalog, db, err, awake, db0, computed>>

\* ------------------------------------------------------ the DuckDB engine
\* The batch the results buffer is saved at: 100 at line 123, scaled down
\* so that a run saves several batches.
DuckBatch == 2

\* A Python number, and the text a TEXT column of the store keeps for it.
\* The two never compare equal.
Num(n) == <<0, n>>

AsText(v) == IF v[1] = 0 THEN <<1>> \o ToText(v[2]) ELSE v

\* A row of zip_data_df[['zipcode', 'latitude', 'longitude']].values.tolist()
ZipRow(p) == <<Num(p.zipcode), p.latitude, p.longitude>>

\* haversine(lat1, lon1, lat2, lon2), abstracted to an integer metric.
haversine(lat1, lon1, lat2, lon2) == Abs(lat1 - lat2) + Abs(lon1 - lon2)

\* What calculate_distance returns when it caught an exception.
None == <<>>

\* calculate_distance(pair): (zip1, zip2, distance), or None when the
\* arithmetic raised because a coordinate is not a number.
calculate_distance(pair) ==
    IF pair[1][1][2] \in bad \/ pair[2][1][2] \in bad
    THEN None
    ELSE <<pair[1][1], pair[2][1],
           haversine(pair[1][2], pair[1][3], pair[2][2], pair[2][3])>>

\* INSERT OR IGNORE INTO calculated_distances under PRIMARY KEY (zip1, zip2)
InsertOrIgnore(table, r) ==
    LET row == [zip1 |-> AsText(r[1]), zip2 |-> AsText(r[2]), distance_km |-> r[3]]
    IN IF \E old \in table : old.zip1 = row.zip1 /\ old.zip2 = row.zip2
       THEN table
       ELSE table \cup {row}

\* save_results_to_duckdb(rs) when the first k statements of the executemany
\* take effect: k = Len(rs) is a save that worked, a smaller k is one that
\* raised on the way; the exception is logged and the function returns.
RECURSIVE save_results_to_duckdb(_, _, _)
save_results_to_duckdb(table, rs, k) ==
    IF k = 0 \/ rs = <<>> THEN table
    ELSE save_results_to_duckdb(InsertOrIgnore(table, Head(rs)), Tail(rs), k - 1)

\* load_completed_pairs(): the (zip1, zip2) of the rows of the store, or
\* the empty set when reading the store raised.
load_completed_pairs(table, ok) ==
    IF ok THEN {<<row.zip1, row.zip2>> : row \in table} ELSE {}

\* remaining_pairs: the pairs of all_pairs found in completed_pairs in
\* neither orientation.
RemainingPairs(all_pairs, completed_pairs) ==
    {all_pairs[i] : i \in {j \in 1..Len(all_pairs) :
        /\ <<all_pairs[j][1][1], all_pairs[j][2][1]>> \notin completed_pairs
        /\ <<all_pairs[j][2][1], all_pairs[j][1][1]>> \notin completed_pairs}}

Reverse(s) == [i \in 1..Len(s) |-> s[Len(s) + 1 - i]]

\* The script starts: the CSV is read (its rows in the catalog's order or,
\* the file having been rewritten, in the opposite one), the completed
\* pairs are loaded and every remaining pair is submitted to the pool.
DuckStart ==
    /\ dpc \in {"idle", "done", "crashed"}
    /\ \E order \in {catalog, Reverse(catalog)}, ok \in BOOLEAN :
          /\ zip_data' = [i \in 1..Len(order) |-> ZipRow(order[i])]
          /\ submitted' = RemainingPairs(Combinations2(zip_data'),
                                         load_completed_pairs(cd, ok))
    /\ finished' = {}
    /\ results' = <<>>
    /\ dpc' = "running"
    /\ cd0' = cd
    /\ todo' = submitted'
    /\ saved' = TRUE
    /\ UNCHANGED <<sql, catalog, bad, cd>>

\* A pool thread runs calculate_distance on one submitted pair.
WorkerRun ==
    /\ dpc = "running"
    /\ \E pair \in submitted :
          /\ submitted' = submitted \ {pair}
          /\ finished' = finished \cup {<<pair, calculate_distance(pair)>>}
    /\ UNCHANGED <<sql, catalog, bad, zip_data, cd, results, dpc, cd0, todo, saved>>

\* Mutant of Collect: results.clear() has moved out of the if, the buffer
\* is emptied at every turn of the loop.
CollectClearsAlways ==
    /\ dpc = "running"
    /\ \E f \in finished :
          /\ finished' = finished \ {f}
          /\ LET buf == IF f[2] # None THEN Append(results, f[2]) ELSE results
             IN IF Len(buf) >= DuckBatch
                THEN \E k \in 0..Len(buf) :
                        /\ cd' = save_results_to_duckdb(cd, buf, k)
                        /\ saved' = (saved /\ k = Len(buf))
                ELSE /\ cd' = cd
                     /\ saved' = saved
    /\ results' = <<>>
    /\ UNCHANGED <<sql, catalog, bad, zip_data, submitted, dpc, cd0, todo>>

\* One turn of the as_completed loop in the main thread: take a completed
\* future, append its result unless it is None, and save and clear the
\* buffer once it holds DuckBatch results.
Collect ==
    /\ dpc = "running"
    /\ \E f \in finished :
          /\ finished' = finished \ {f}
          /\ LET buf == IF f[2] # None THEN Append(results, f[2]) ELSE results
             IN IF Len(buf) >= DuckBatch
                THEN /\ \E k \in 0..Len(buf) :
                           /\ cd' = save_results_to_duckdb(cd, buf, k)
                           /\ saved' = (saved /\ k = Len(buf))
                     /\ results' = <<>>
                ELSE /\ cd' = cd
                     /\ results' = buf
                     /\ saved' = saved
    /\ UNCHANGED <<sql, catalog, bad, zip_data, submitted, dpc, cd0, todo>>

\* Every future was collected: the rest of the buffer is saved, the
\* function returns and the script prints "Calculation completed".
FinalSave ==
    /\ dpc = "running"
    /\ submitted = {}
    /\ finished = {}
    /\ \E k \in 0..Len(results) :
          /\ cd' = save_results_to_duckdb(cd, results, k)
          /\ saved' = (saved /\ k = Len(results))
    /\ results' = <<>>
    /\ dpc' = "done"
    /\ UNCHANGED <<sql, catalog, bad, zip_data, submitted, finished, cd0, todo>>

\* The script's process dies: the buffer and the futures are gone.
DuckCrash ==
    /\ dpc = "running"
    /\ submitted' = {}
    /\ finished' = {}
    /\ results' = <<>>
    /\ dpc' = "crashed"
    /\ UNCHANGED <<sql, catalog, bad, zip_data, cd, cd0, todo, saved>>

DuckNext ==
    \/ DuckStart
    \/ WorkerRun
    \/ Collect
    \/ FinalSave
    \/ DuckCrash

\* The CSV of the DuckDB engine may hold rows whose coordinates are not
\* numbers.
DuckInit ==
    /\ catalog \in {[i \in 1..n |-> Point(IdOf(i))] : n \in 0..MaxN}
    /\ db = <<>>
    /\ SqlIdle
    /\ bad \in {B \in SUBSET {p.zipcode : p \in Range(catalog)} : Cardinality(B) <= 1}
    /\ DuckIdle

DuckSpec == DuckInit /\ [][DuckNext]_vars

\* One run of the script over the table earlier runs left: the rows of the
\* first k pairs of a run over the CSV as it is, or every row of a run over
\* the CSV in the opposite order.
SavedBy(order, k) ==
    LET pairs == Combinations2([i \in 1..Len(order) |-> ZipRow(order[i])])
    IN {[zip1 |-> AsText(calculate_distance(pairs[i])[1]),
         zip2 |-> AsText(calculate_distance(pairs[i])[2]),
         distance_km |-> calculate_distance(pairs[i])[3]] :
            i \in {j \in 1..k : calculate_distance(pairs[j]) # None}}

DuckFoundStores(zipcodes) ==
    {SavedBy(zipcodes, k) : k \in 0..TotalPairs(zipcodes)}
        \cup {SavedBy(Reverse(zipcodes), TotalPairs(zipcodes))}

DuckInitAnyStore ==
    /\ catalog \in {[i \in 1..n |-> Point(IdOf(i))] : n \in 0..MaxN}
    /\ db = <<>>
    /\ SqlIdle
    /\ bad \in {B \in SUBSET {p.zipcode : p \in Range(catalog)} : Cardinality(B) <= 1}
    /\ zip_data = <<>>
    /\ cd \in DuckFoundStores(catalog)
    /\ submitted = {}
    /\ finished = {}
    /\ results = <<>>
    /\ dpc = "idle"
    /\ cd0 = cd
    /\ todo = {}
    /\ saved = TRUE

DuckFirstStart == dpc = "idle" /\ DuckStart

DuckRunNext ==
    \/ DuckFirstStart
    \/ WorkerRun
    \/ Collect
    \/ FinalSave
    \/ DuckCrash

DuckRunSpec == DuckInitAnyStore /\ [][DuckRunNext]_vars


Next ==
    \/ MainStart
    \/ MainCheck
    \/ LoadZipcodes
    \/ LoadFails
    \/ Connect
    \/ InitBegin
    \/ InitCount
    \/ GenNext
    \/ GenTail
    \/ CalcBegin
    \/ LoopPull
    \/ Compute
    \/ Update
    \/ Commit
    \/ CommitFails
    \/ Finish
    \/ DiskCheckFails
    \/ Crash

Spec == Init /\ [][Next]_vars

SpecAnyStore == InitAnyStore /\ [][Next]_vars

\* A running main() keeps running: each step that is not an interruption
\* is taken once it is due.  Restarts, crashes and failing disk checks are
\* up to the environment, and so are a CSV that cannot be loaded and a
\* commit the store refuses.
RunStep ==
    \/ MainCheck
    \/ LoadZipcodes
    \/ Connect
    \/ InitBegin
    \/ InitCount
    \/ GenNext
    \/ GenTail
    \/ CalcBegin
    \/ LoopPull
    \/ Compute
    \/ Update
    \/ Commit
    \/ Finish

LiveSpec == Init /\ [][Next]_vars /\ WF_vars(RunStep)

\* ============================================================ properties
\* The unordered pairs of the catalog.
Universe(zipcodes) ==
    {{zipcodes[i].zipcode, zipcodes[j].zipcode} :
        <<i, j>> \in {ij \in (1..Len(zipcodes)) \X (1..Len(zipcodes)) : ij[1] < ij[2]}}

\* The unordered pair a row stands for.
PairOf(row) == {ParseInt(row.zip1), ParseInt(row.zip2)}

\* The table holds every unordered pair of the catalog once, and nothing else.
ExactUniverse(table) ==
    /\ Len(table) = TotalPairs(catalog)
    /\ \A i \in 1..Len(table) : PairOf(table[i]) \in Universe(catalog)
    /\ \A u \in Universe(catalog) :
          Cardinality({i \in 1..Len(table) : PairOf(table[i]) = u}) = 1

\* The (zip1, zip2) of the rows with and without a distance.
DoneKeys(table) ==
    {<<table[i].zip1, table[i].zip2>> : i \in (1..Len(table)) \ NullRows(table)}

NullKeys(table) == {<<table[i].zip1, table[i].zip2>> : i \in NullRows(table)}

AllKeys(table) == {<<table[i].zip1, table[i].zip2>> : i \in 1..Len(table)}

\* Inside calculate_distances.
InCalc == pc \in {"calc", "loop", "compute", "update", "commit", "drop"}

\* Between the SELECT of a batch and the commit that follows its UPDATEs.
InBatch == pc \in {"compute", "update", "commit"}

\* ---------------------------------------------------------------------
\* C1: once the generator has populated zip_distances, the rows with and
\* without a distance are together exactly the unordered pairs of the
\* catalog, each present once, in the committed store and in the
\* connection's view, through every batch, commit, crash and restart;
\* calculate_distances neither inserts nor deletes a row.
C1_UniverseFixed ==
    /\ db # <<>> => ExactUniverse(db)
    /\ InCalc => ExactUniverse(work)
    /\ pc = "done" => ExactUniverse(db)
    /\ InCalc /\ pc # "calc" => AllKeys(work) = AllKeys(db) /\ Len(work) = Len(db)

\* A restarted run is between two batches, with part of the universe done
\* and part pending.
C1_Witness ==
    /\ pc = "loop"
    /\ db0 # <<>>
    /\ Len(db) = 3
    /\ DoneKeys(db) # {}
    /\ NullKeys(db) # {}

\* ---------------------------------------------------------------------
\* C2: a run restarted after an interruption ends with the table an
\* uninterrupted run produces, and it computes the pairs that were pending
\* at the restart and no others.
UninterruptedResult(zipcodes) ==
    LET full == FullTable(zipcodes)
    IN UpdateMany(full, ProcessPairs(zipcodes, RowsAt(full, 1..Len(full))))

C2_ResumeEquivalent ==
    /\ pc = "done" => db = UninterruptedResult(catalog)
    /\ db0 # <<>> => computed \subseteq NullKeys(db0)
    /\ pc = "done" /\ db0 # <<>> => computed = NullKeys(db0)

\* A run that found part of the work done has finished.
C2_Witness ==
    /\ pc = "done"
    /\ DoneKeys(db0) # {}
    /\ NullKeys(db0) # {}

\* ---------------------------------------------------------------------
\* C3: a batch is committed atomically.  While a batch is between its
\* SELECT and its commit none of its pairs has a distance in the committed
\* store; a crash or a failure leaves the committed store as the previous
\* commit left it; and the committed set of done pairs changes only at the
\* batch's commit, by the whole batch that was pulled.
C3_AtomicBatch ==
    [][ /\ InBatch => Range(unprocessed) \cap DoneKeys(db) = {}
        /\ pc' \in {"crashed", "failed"} => db' = db
        /\ DoneKeys(db') # DoneKeys(db) =>
              /\ pc = "commit"
              /\ DoneKeys(db') = DoneKeys(db) \cup Range(unprocessed)
              /\ Cardinality(Range(unprocessed)) =
                    (IF CountNull(db) < BatchSize THEN CountNull(db) ELSE BatchSize)
      ]_vars

\* A run was cut short after its UPDATEs and before the commit: distances
\* it had written are not in the committed store.
C3_Witness ==
    /\ pc = "crashed"
    /\ Len(lost) = Len(db)
    /\ DoneKeys(lost) # DoneKeys(db)
    /\ DoneKeys(db) # {}

\* ---------------------------------------------------------------------
\* C4: on an empty store the generator, run to completion, leaves one row
\* per unordered pair of the catalog, N*(N-1)/2 rows, none with a distance,
\* for every N from 0 on and whether or not the insert batch divides the
\* number of pairs.
C4_GeneratesUniverse ==
    pc = "calc" /\ db = <<>> =>
        /\ ExactUniverse(work)
        /\ Len(work) = (Len(catalog) * (Len(catalog) - 1)) \div 2
        /\ NullRows(work) = 1..Len(work)

\* Generation has completed with a full insert batch and a partial one.
C4_Witness ==
    /\ pc = "calc"
    /\ db = <<>>
    /\ Len(work) > InsertBatch
    /\ Len(work) % InsertBatch # 0

\* ---------------------------------------------------------------------
\* C5: against a store that already holds N*(N-1)/2 rows the generator is
\* a no-op: through initialize_pairs_table and at its return the table is
\* the one the run found, row for row, and the generator does not refuse it.
C5_GeneratorIdempotent ==
    Len(db0) = TotalPairs(catalog) =>
        /\ pc \in {"count", "gen", "calc"} => work = db0 /\ db = db0
        /\ err # "incomplete"

\* The generator has returned on a populated store that holds distances.
C5_Witness ==
    /\ pc = "calc"
    /\ Len(db0) = TotalPairs(catalog)
    /\ Len(db0) > 0
    /\ DoneKeys(db0) # {}

\* ---------------------------------------------------------------------
\* C6: when the store holds neither 0 nor N*(N-1)/2 rows the run never
\* gets past the generator's count, ends in the generator's error (or in
\* an earlier interruption), and leaves the rows as they were.
C6_RefusesMismatch ==
    Len(db0) \notin {0, TotalPairs(catalog)} =>
        /\ pc \in {"idle", "main", "load", "connect", "init", "count", "failed", "crashed"}
        /\ pc = "failed" => err \in {"incomplete", "disk", "load"}
        /\ db = db0
        /\ conn => work = db0
        /\ computed = {}

\* The generator has refused a store of the wrong size.
C6_Witness ==
    /\ pc = "failed"
    /\ err = "incomplete"
    /\ Len(db0) \notin {0, TotalPairs(catalog)}
    /\ db = db0

\* ---------------------------------------------------------------------
\* C7: when calculate_distances leaves its loop, and when main() has
\* returned, no row has a NULL distance.
C7_SuccessMeansNoPending ==
    /\ pc = "drop" => CountNull(work) = 0
    /\ pc = "done" => CountNull(db) = 0

\* The loop was left by the empty pull, the counter still positive.
C7_Witness ==
    /\ pc = "drop"
    /\ total_pairs > 0
    /\ Len(work) > 0

\* ---------------------------------------------------------------------
\* C8: the DuckDB script reports completion only when every unordered pair
\* of the catalog has a row in calculated_distances.
C8_CompletionMeansAllSaved ==
    dpc = "done" =>
        \A u \in Universe(catalog) :
            \E row \in cd : {row.zip1, row.zip2} = {AsText(Num(z)) : z \in u}

\* ---------------------------------------------------------------------
\* C9: a run of main() that is not interrupted (no crash, no failing disk
\* check, load or commit) terminates with no pending
\* pair, whatever earlier interrupted runs left in the store, and every
\* committed loop turn lowers the number of NULL rows.
C9_Converges ==
    /\ (pc = "main") ~>
          \/ pc = "crashed"
          \/ pc = "failed" /\ err \in {"disk", "load", "commit"}
          \/ pc = "done" /\ CountNull(db) = 0 /\ Len(db) = TotalPairs(catalog)
    /\ [][pc = "commit" /\ pc' = "loop" => CountNull(db') < CountNull(db)]_vars

\* A run that found work left by an interrupted run has finished it.
C9_Witness ==
    /\ pc = "done"
    /\ CountNull(db0) > 0
    /\ CountNull(db) = 0

\* ---------------------------------------------------------------------
\* C10: generation is all-or-nothing: whatever interrupts a run, the
\* committed store holds no row or all N*(N-1)/2 rows, and no run ends in
\* the generator's refusal of an incomplete table.
C10_GenerationAllOrNothing ==
    /\ Len(db) \in {0, TotalPairs(catalog)}
    /\ ~(pc = "failed" /\ err = "incomplete")

\* A run was cut short during generation after rows had been inserted.
C10_Witness ==
    /\ pc \in {"crashed", "failed"}
    /\ db = <<>>
    /\ Len(lost) > 0
    /\ Len(lost) < TotalPairs(catalog)

\* ---------------------------------------------------------------------
\* C11: a distance is written once.  A row that has a distance in the
\* committed store keeps it in every later step, in the store and through
\* the connection; no later SELECT pulls it into a batch; and geodesic() is
\* not called again for a pair whose batch was committed, in this run or a
\* later one.
C11_WrittenOnce ==
    [][ /\ \A i \in (1..Len(db)) \ NullRows(db) : i <= Len(db') /\ db'[i] = db[i]
        /\ pc = "update" /\ pc' = "commit" =>
              \A i \in (1..Len(work)) \ NullRows(work) : work'[i] = work[i]
        /\ pc = "loop" /\ pc' = "compute" => Range(unprocessed') \cap DoneKeys(db) = {}
        /\ (computed' \ computed) \cap DoneKeys(db) = {}
      ]_vars

\* A later batch is about to be written into a table that holds committed
\* distances.
C11_Witness ==
    /\ pc = "update"
    /\ processed # <<>>
    /\ DoneKeys(db) # {}
    /\ DoneKeys(db0) # {}

\* ---------------------------------------------------------------------
\* C12: whatever runs of the DuckDB script came before (complete, cut
\* short, with the CSV rows in another order), calculated_distances holds
\* at most one row per unordered pair: two rows that stand for the same
\* two zipcodes, in the same or in opposite orientation, are one row.
C12_OneRowPerPair ==
    \A r1 \in cd : \A r2 \in cd :
        {r1.zip1, r1.zip2} = {r2.zip1, r2.zip2} => r1 = r2

\* ---------------------------------------------------------------------
\* C13: a run of the DuckDB script submits the pairs of the universe that
\* have no row in calculated_distances and no others: a pair waiting in
\* the pool has no row, in either orientation, and a pair without a row is
\* waiting, computed or in the results buffer.
HasRow(table, pair) ==
    \E row \in table :
        {row.zip1, row.zip2} = {AsText(pair[1][1]), AsText(pair[2][1])}

C13_SubmitsOnlyUnsaved ==
    dpc = "running" =>
        /\ \A pair \in submitted : ~HasRow(cd, pair)
        /\ \A pair \in Range(Combinations2(zip_data)) :
              ~HasRow(cd, pair) /\ calculate_distance(pair) # None /\ saved =>
                 \/ pair \in submitted
                 \/ \E f \in finished : f[1] = pair
                 \/ calculate_distance(pair) \in Range(results)

\* ---------------------------------------------------------------------
\* C17: the interleaving of the pool's threads does not show in the store.
\* Every submitted pair is waiting, complete or collected, never two of
\* these; a future holds what calculate_distance returns for its pair; a
\* collected result is in the buffer once or was handed to a save, never
\* both; and a run whose saves all worked ends with the table it found
\* plus one row per submitted pair that has a distance, in whatever order
\* the threads ran and completed.
RowOf(r) == [zip1 |-> AsText(r[1]), zip2 |-> AsText(r[2]), distance_km |-> r[3]]

HasKey(table, row) == \E old \in table : old.zip1 = row.zip1 /\ old.zip2 = row.zip2

ExpectedTable ==
    cd0 \cup {row \in {RowOf(calculate_distance(p)) :
                          p \in {q \in todo : calculate_distance(q) # None}} :
                 ~HasKey(cd0, row)}

C17_InterleavingFree ==
    /\ dpc = "running" =>
          /\ submitted \cap {f[1] : f \in finished} = {}
          /\ submitted \cup {f[1] : f \in finished} \subseteq todo
          /\ \A f \in finished : f[2] = calculate_distance(f[1])
          /\ \A i \in 1..Len(results) : \A j \in 1..Len(results) :
                results[i] = results[j] => i = j
          /\ \A r \in Range(results) :
                /\ \E p \in todo : r = calculate_distance(p)
                /\ RowOf(r) \notin cd \ cd0
          /\ \A p \in todo \ (submitted \cup {f[1] : f \in finished}) :
                calculate_distance(p) # None /\ saved =>
                    \/ calculate_distance(p) \in Range(results)
                    \/ HasKey(cd, RowOf(calculate_distance(p)))
          /\ cd \subseteq ExpectedTable
    /\ dpc = "done" /\ saved => cd = ExpectedTable

\* A run that submitted more pairs than one save holds has ended with all
\* its saves done, and has added rows to the table it found.
C17_Witness ==
    /\ dpc = "done"
    /\ saved
    /\ Cardinality(todo) > DuckBatch
    /\ cd = ExpectedTable
    /\ cd # cd0

\* ---------------------------------------------------------------------
\* C14: every write of a batch comes after a disk check of its own.  In
\* the record of a run's calls an INSERT and a SELECT of a batch directly
\* follow a check that passed, the UPDATE and the commit of a batch follow
\* its SELECT with nothing of another batch in between, and a check that
\* failed is the last call of its run: the run has ended in the error, the
\* connection is closed, nothing is retried.
C14_CheckBeforeWrite ==
    /\ \A i \in 1..Len(calls) :
          /\ calls[i] \in {"insert", "select"} => i > 1 /\ calls[i - 1] = "check"
          /\ calls[i] = "update" => i > 2 /\ calls[i - 1] = "select"
          /\ calls[i] = "commit" =>
                \/ i > 3 /\ calls[i - 1] = "update" /\ calls[i - 3] = "check"
                \/ i > 1 /\ calls[i - 1] = "create_index" /\ calls[i - 2] = "check"
                \/ i > 1 /\ calls[i - 1] = "drop_index"
          /\ calls[i] = "check_failed" => i = Len(calls)
    /\ calls # <<>> /\ calls[Len(calls)] = "check_failed" =>
          /\ pc = "failed"
          /\ err = "disk"
          /\ ~conn
    /\ pc = "failed" /\ err = "disk" => calls[Len(calls)] = "check_failed"

\* The disk check in front of a later batch failed: the run had inserted,
\* updated and committed before.
C14_Witness ==
    /\ pc = "failed"
    /\ err = "disk"
    /\ \E i \in 1..Len(calls) : calls[i] = "insert"
    /\ \E i \in 1..Len(calls) : calls[i] = "update"
    /\ DoneKeys(db) # {}
    /\ NullKeys(db) # {}

\* ---------------------------------------------------------------------
\* C15: when main() has been left, by its return or by an exception, the
\* keep-awake that KeepAwake.start() acquired has been released.
C15_ReleasedOnExit == pc \in {"done", "failed"} => ~awake

\* ---------------------------------------------------------------------
\* C16: every row the generator writes has zip1 < zip2, whatever the
\* order of the zipcodes in the catalog.
C16_Canonical ==
    \A i \in 1..Len(work) : ParseInt(work[i].zip1) < ParseInt(work[i].zip2)

\* ---------------------------------------------------------------------
\* C18: a run that ends in the failure of a batch commit has tried that
\* commit more than once, and leaves the committed store without any
\* distance of the batch.
C18_RetriesCommit ==
    pc = "failed" /\ err = "commit" =>
        /\ Cardinality({i \in 1..Len(calls) : calls[i] = "commit_failed"}) > 1
        /\ DoneKeys(db) # DoneKeys(lost)

\* ---------------------------------------------------------------------
\* C19: a run that ends in the failure of load_zipcodes has made no call
\* on the store: after the disk check at the head of main() there is no
\* connect, no CREATE TABLE, no INSERT, UPDATE or commit; the committed
\* table is the one the run found and nothing was computed.
C19_LoadFailureTouchesNothing ==
    pc = "failed" /\ err = "load" =>
        /\ calls = <<"check">>
        /\ ~conn
        /\ lost = <<>>
        /\ db = db0
        /\ computed = {}

\* The load failed in a run over a store that an earlier run had filled.
C19_Witness ==
    /\ pc = "failed"
    /\ err = "load"
    /\ db0 # <<>>
    /\ DoneKeys(db0) # {}

\* ---------------------------------------------------------------------
\* C20: a pulled pair with a zipcode that is not in the catalog ends the
\* run in an error.  No batch that holds such a pair reaches its UPDATE or
\* its commit; when the run has ended in the lookup error the connection
\* had written nothing beyond the committed store; no committed distance
\* belongs to a pair with an unknown zipcode; and no run over a table that
\* holds such a pair returns normally.
C20_UnknownIdAborts ==
    /\ pc \in {"update", "commit"} =>
          \A k \in 1..Len(unprocessed) : Known(catalog, unprocessed[k])
    /\ pc = "failed" /\ err = "lookup" =>
          /\ lost = db
          /\ ~conn
          /\ calls[Len(calls)] = "select"
    /\ \A key \in DoneKeys(db) : Known(catalog, key)
    /\ pc = "done" => \A key \in AllKeys(db) : Known(catalog, key)

\* The run over a table of another catalog ended in the lookup error after
\* it had computed a pair of the same batch.
C20_Witness ==
    /\ pc = "failed"
    /\ err = "lookup"
    /\ computed # {}
    /\ Len(db) = TotalPairs(catalog)
    /\ lost = db

\* ---------------------------------------------------------------------
\* The NULL rows calculate_distances counted at its start, in a run that
\* has reached the loop.
Pending0 == IF db0 = <<>> THEN TotalPairs(catalog) ELSE CountNull(db0)

Ceil(a, b) == (a + b - 1) \div b

\* The loop turns of this run that wrote a batch.
Turns == Cardinality({i \in 1..Len(calls) : calls[i] = "update"})

\* No two rows of the table hold the same (zip1, zip2).
DistinctKeys(table) ==
    \A i \in 1..Len(table) : \A j \in 1..Len(table) :
        table[i].zip1 = table[j].zip1 /\ table[i].zip2 = table[j].zip2 => i = j

====
